---- MODULE Spec2Model ----
(***************************************************************************)
(* The protocol translator of openai-gemini: handleCompletions, the        *)
(* non-stream response transformer, the frame reassembler (parseStream)    *)
(* and the stream translator, the TransformStream stage that turns         *)
(* reassembled Gemini SSE payloads into OpenAI chat.completion.chunk       *)
(* records.                                                                *)
(*                                                                         *)
(* The repository holds two copies of the translator:                      *)
(*   src/src/worker.mjs      (definitions with the source's names)         *)
(*   src/unnamed/part_000    (definitions with the suffix P)               *)
(* The variable impl says which copy serves the request.                   *)
(*                                                                         *)
(* Specifications:                                                         *)
(*   Spec         the stream translator on reassembled payloads            *)
(*   SpecParse    the reassembler on the characters of the upstream body   *)
(*   SpecCall     one call of handleCompletions                            *)
(*   SpecRequest  the call followed by the translated stream               *)
(*   SpecBuild    the request transformer and the upstream call it issues  *)
(*   SpecTwo      two streaming requests in flight at once                 *)
(*                                                                         *)
(* Text is a sequence of tokens; "" is the empty sequence << >>.  In the   *)
(* reassembler every token is one character.                               *)
(***************************************************************************)
EXTENDS Integers, Sequences, FiniteSets, TLC

\* Number of payloads the upstream may deliver before the stream ends.
MaxFrames == 3
\* Largest candidate index the upstream uses.
MaxIndex == 1

\* Number of messages in a chat request.
MaxMessages == 2
\* Number of candidates in a non-streaming upstream response.
MaxCands == 2
\* Number of SSE records the upstream body is made of.
MaxRecords == 2

\* worker.mjs:904, promptTokenCount <= 5 marks a ping message
PingLimit == 5

\* JSON null as a finish_reason
Null == "null"
\* cand.index absent from the JSON
NoIndex == -1

----------------------------------------------------------------------------
(* Upstream values *)

NoUsage == [present |-> FALSE, prompt |-> 0, completion |-> 0, total |-> 0]
SmallUsage == [present |-> TRUE, prompt |-> 3, completion |-> 1, total |-> 4]
BigUsage == [present |-> TRUE, prompt |-> 10, completion |-> 2, total |-> 12]

\* one element of content.parts; has = FALSE when the part has no text field
T(s) == [has |-> TRUE, text |-> s]
NoTextPart == [has |-> FALSE, text |-> << >>]

\* one element of data.candidates; content is "absent", "noparts" ({} without
\* parts) or "parts"; finishReason "" is an absent (or empty) finishReason
Cand(index, content, parts, fr) ==
  [isNull |-> FALSE, index |-> index, content |-> content, parts |-> parts,
   finishReason |-> fr]
NullCand ==
  [isNull |-> TRUE, index |-> NoIndex, content |-> "absent", parts |-> << >>,
   finishReason |-> ""]

\* A payload handed to toOpenAiStream.  kind: "empty" (the empty string),
\* "bad" (not JSON), "null" (the JSON text null), "obj" (a JSON object).
\* ck tells what data.candidates is: "absent", "notarray" (truthy, no array)
\* or "array" (then cands holds it).
Obj(ck, cands, usage, mv, br) ==
  [kind |-> "obj", ck |-> ck, cands |-> cands, usage |-> usage,
   modelVersion |-> mv, blockReason |-> br]
Line(kind) ==
  [kind |-> kind, ck |-> "absent", cands |-> << >>, usage |-> NoUsage,
   modelVersion |-> FALSE, blockReason |-> FALSE]
One(c, usage) == Obj("array", <<c>>, usage, FALSE, FALSE)

Indices == 0..MaxIndex

\* frames every candidate index sends: text without a finishReason, and a
\* two-part closing frame with STOP and usageMetadata
FramesPerIndex(i) ==
  { One(Cand(i, "parts", <<T(<<"a">>)>>, ""), NoUsage),
    One(Cand(i, "parts", <<T(<<"a">>), T(<<"b">>)>>, "STOP"), BigUsage) }

Frames ==
  { Line("empty"), Line("bad"), Line("null"),
    Obj("absent", << >>, NoUsage, FALSE, FALSE),
    Obj("absent", << >>, SmallUsage, TRUE, FALSE),
    Obj("absent", << >>, BigUsage, TRUE, TRUE),
    Obj("notarray", << >>, NoUsage, FALSE, FALSE),
    Obj("array", << >>, BigUsage, FALSE, FALSE),
    One(NullCand, NoUsage),
    One(Cand(0, "parts", <<T(<< >>)>>, ""), BigUsage),
    One(Cand(0, "absent", << >>, "SAFETY"), NoUsage),
    One(Cand(0, "noparts", << >>, ""), NoUsage),
    One(Cand(0, "parts", <<T(<<"a">>)>>, "WEIRD"), NoUsage),
    One(Cand(0, "parts", <<T(<< >>)>>, "STOP"), NoUsage),
    One(Cand(NoIndex, "parts", <<T(<<"b">>), NoTextPart>>, "MAX_TOKENS"), SmallUsage),
    Obj("array", <<Cand(0, "parts", <<T(<<"a">>)>>, ""),
                   Cand(1, "parts", <<T(<<"b">>)>>, "")>>, NoUsage, FALSE, FALSE) }
  \cup UNION { FramesPerIndex(i) : i \in Indices }

----------------------------------------------------------------------------
(* Emitted records *)

NoTotals == [prompt_tokens |-> 0, completion_tokens |-> 0, total_tokens |-> 0]

\* One "data: {...}\n\n" record.  role: delta.role is present ("assistant");
\* hasContent: delta.content is present; usage: "absent" (no usage key),
\* "null" (usage: null) or "totals" (usage holds the counters in totals).
Chunk(index, role, hasContent, content, fin, usage, totals) ==
  [kind |-> "chunk", index |-> index, role |-> role, hasContent |-> hasContent,
   content |-> content, finish_reason |-> fin, usage |-> usage, totals |-> totals]
\* "data: [DONE]\n\n"
Done ==
  [kind |-> "done", index |-> NoIndex, role |-> FALSE, hasContent |-> FALSE,
   content |-> << >>, finish_reason |-> Null, usage |-> "absent", totals |-> NoTotals]

\* An entry of the array this.last: a recorded frame, or a hole (undefined)
Slot(d) == [set |-> TRUE, data |-> d]
Hole == [set |-> FALSE, data |-> Line("empty")]

\* an assignment to a fresh array
ArraySet_Reset(arr, idx, d) == [k \in 1..idx |-> Hole] \o <<Slot(d)>>

\* an assignment that keeps an entry already made
ArraySet_KeepFirst(arr, idx, d) ==
  IF idx + 1 <= Len(arr)
  THEN (IF arr[idx + 1].set THEN arr ELSE [arr EXCEPT ![idx + 1] = Slot(d)])
  ELSE arr \o [k \in 1..(idx - Len(arr)) |-> Hole] \o <<Slot(d)>>

\* last[idx] = data on a JavaScript array (idx counts from 0)
ArraySet(arr, idx, d) ==
  IF idx + 1 <= Len(arr)
  THEN [arr EXCEPT ![idx + 1] = Slot(d)]
  ELSE arr \o [k \in 1..(idx - Len(arr)) |-> Hole] \o <<Slot(d)>>
\* the last candidate of the list
Primary_Last(cands) == cands[Len(cands)]

\* data.candidates[0]
Primary(cands) == cands[1]

\* !last[idx]
Unseen(arr, idx) == idx + 1 > Len(arr) \/ ~arr[idx + 1].set

----------------------------------------------------------------------------
(* src/src/worker.mjs *)

\* a table that sends RECITATION to "stop"
reasonsMap_Recitation ==
  [r \in {"STOP", "MAX_TOKENS", "SAFETY", "RECITATION"} |->
     CASE r = "MAX_TOKENS" -> "length"
       [] r = "SAFETY" -> "content_filter"
       [] OTHER -> "stop"]

reasonsMap ==
  [r \in {"STOP", "MAX_TOKENS", "SAFETY", "RECITATION"} |->
     CASE r = "STOP" -> "stop"
       [] r = "MAX_TOKENS" -> "length"
       [] OTHER -> "content_filter"]

\* a separator of one space
SEP_Space == <<" ">>

SEP == <<"\n\n|>">>

\* the fixed texts transformCandidates substitutes
MsgNullCand == <<"[candidate error]">>
MsgNoParts == <<"[incomplete content]">>
MsgNoContent == <<"[no content]">>

\* cand.content.parts.map(p => p?.text || "").join(SEP)
RECURSIVE JoinSep(_)
JoinSep(parts) ==
  IF parts = << >> THEN << >>
  ELSE IF Len(parts) = 1 THEN (IF parts[1].has THEN parts[1].text ELSE << >>)
  ELSE (IF parts[1].has THEN parts[1].text ELSE << >>) \o SEP \o JoinSep(Tail(parts))

\* cand.index || 0
IndexOf(cand) == IF cand.index = NoIndex THEN 0 ELSE cand.index

\* reasonsMap[cand.finishReason] || cand.finishReason || "error"
FinishReason(cand) ==
  IF cand.finishReason \in DOMAIN reasonsMap THEN reasonsMap[cand.finishReason]
  ELSE IF cand.finishReason # "" THEN cand.finishReason
  ELSE "error"

\* transformCandidates("delta", cand): the choice item before the stream
\* translator edits it
transformCandidates(cand) ==
  IF cand.isNull
  THEN [index |-> 0, role |-> TRUE, hasContent |-> TRUE, content |-> MsgNullCand,
        finish_reason |-> "error"]
  ELSE [index |-> IndexOf(cand), role |-> TRUE, hasContent |-> TRUE,
        content |-> CASE cand.content = "parts" -> JoinSep(cand.parts)
                      [] cand.content = "noparts" -> MsgNoParts
                      [] OTHER -> MsgNoContent,
        finish_reason |-> FinishReason(cand)]

\* transformUsage(data.usageMetadata)
transformUsage(u) ==
  [prompt_tokens |-> u.prompt, completion_tokens |-> u.completion,
   total_tokens |-> u.total]

\* UsageKey without the test of stop: every chunk gets the totals
UsageKey_NoStopTest(data, stop, include) ==
  IF data.usage.present /\ include THEN "totals" ELSE "absent"

\* the usage key of a chunk built from data (lines 852-854)
UsageKey(data, stop, include) ==
  IF data.usage.present /\ include
  THEN (IF stop THEN "totals" ELSE "null")
  ELSE "absent"

\* transformResponseStream(data, stop, first): the records it yields, << >>
\* where it returns null.  d is an entry of this.last or Slot(data); on a hole
\* data.candidates throws and the catch returns null.
transformResponseStream(d, stop, first, include) ==
  IF ~d.set \/ d.data.ck # "array" THEN << >>
  ELSE
    LET cand == IF d.data.cands = << >> THEN NullCand ELSE d.data.cands[1]
        item == transformCandidates(cand)
        key == UsageKey(d.data, stop, include)
        tot == IF key = "totals" THEN transformUsage(d.data.usage) ELSE NoTotals
    IN IF item.finish_reason = "error" /\ ~stop /\ ~first THEN << >>
       ELSE IF stop
       THEN <<Chunk(item.index, FALSE, FALSE, << >>, item.finish_reason, key, tot)>>
       ELSE IF first
       THEN <<Chunk(item.index, TRUE, TRUE, << >>, Null, key, tot)>>
       ELSE <<Chunk(item.index, FALSE, TRUE, item.content, Null, key, tot)>>

\* the candidate the translator substitutes for a frame it cannot use
ErrorCand == Cand(0, "parts", <<T(<< >>)>>, "error")
\* the candidate it substitutes for a ping message
PongCand == Cand(0, "parts", <<T(<<"pong">>)>>, "stop")

\* lines 902-904: no candidates, usageMetadata with a low promptTokenCount and
\* a modelVersion
IsPing(data) ==
  /\ data.ck = "absent"
  /\ data.usage.present
  /\ data.modelVersion
  /\ data.usage.prompt <= PingLimit

WithCands(data, cands) == [data EXCEPT !.ck = "array", !.cands = cands]

\* Lines 869-964 of toOpenAiStream: what becomes of the payload before it is
\* translated.  act is "skip" (return, nothing done), "throw" (a TypeError
\* outside every try: the transform rejects) or "go" (data is translated).
Prepare(line, lst) ==
  LET skip == [act |-> "skip", data |-> line, isError |-> FALSE]
      synth(d) == IF Len(lst) > 0 THEN skip
                  ELSE [act |-> "go", data |-> WithCands(d, <<ErrorCand>>),
                        isError |-> TRUE]
  IN CASE line.kind = "empty" -> skip
       [] line.kind = "bad" ->
            IF Len(lst) > 0 THEN skip
            ELSE [act |-> "go",
                  data |-> Obj("array", <<ErrorCand>>, NoUsage, FALSE, FALSE),
                  isError |-> TRUE]
       [] line.kind = "null" -> [act |-> "throw", data |-> line, isError |-> FALSE]
       [] OTHER ->
            IF IsPing(line)
            THEN [act |-> "go", data |-> WithCands(line, <<PongCand>>),
                  isError |-> FALSE]
            ELSE IF line.ck # "array" THEN synth(line)
            ELSE IF line.cands = << >> THEN synth(line)
            ELSE [act |-> "go", data |-> line, isError |-> FALSE]

\* toOpenAiStream(chunk, controller) on this.last = lst: the new this.last, the
\* records enqueued, and whether the call throws
toOpenAiStream(line, lst, include) ==
  LET p == Prepare(line, lst)
      same == [last |-> lst, emit |-> << >>, throws |-> FALSE]
  IN IF p.act = "skip" THEN same
     ELSE IF p.act = "throw" THEN [same EXCEPT !.throws = TRUE]
     ELSE
       LET cand0 == Primary(p.data.cands) IN
       IF cand0.isNull
       THEN \* cand.index throws; the catch of lines 998-1023
            IF Len(lst) > 0 THEN same
            ELSE LET errorData == Obj("array", <<ErrorCand>>, NoUsage, FALSE, FALSE)
                 IN [last |-> <<Slot(errorData)>>,
                     emit |-> transformResponseStream(Slot(errorData), FALSE, TRUE, include),
                     throws |-> FALSE]
       ELSE
         LET idx == IndexOf(cand0)
             cand == [cand0 EXCEPT !.index = idx]
             data == [p.data EXCEPT !.cands[1] = cand]
         IN IF p.isError /\ Len(lst) > 0 THEN same
            ELSE [last |-> ArraySet(lst, idx, data),
                  emit |-> (IF Unseen(lst, idx)
                            THEN transformResponseStream(Slot(data), FALSE, TRUE, include)
                            ELSE << >>)
                           \o (IF cand.content # "absent"
                               THEN transformResponseStream(Slot(data), FALSE, FALSE, include)
                               ELSE << >>),
                  throws |-> FALSE]

\* the for-of loop of toOpenAiStreamFlush over this.last
RECURSIVE FlushLoop(_, _)
FlushLoop(lst, include) ==
  IF lst = << >> THEN << >>
  ELSE transformResponseStream(Head(lst), TRUE, FALSE, include)
         \o FlushLoop(Tail(lst), include)

\* toOpenAiStreamFlush(controller): the records enqueued
toOpenAiStreamFlush(lst, include) ==
  IF Len(lst) > 0 THEN FlushLoop(lst, include) \o <<Done>> ELSE << >>

----------------------------------------------------------------------------
(* src/unnamed/part_000 *)

reasonsMapP ==
  [r \in {"STOP", "MAX_TOKENS", "SAFETY", "RECITATION"} |->
     CASE r = "STOP" -> "stop"
       [] r = "MAX_TOKENS" -> "length"
       [] OTHER -> "content_filter"]

SEPP == <<"\n\n|>">>

\* the text of the record sent for a payload that is not JSON
MsgParseError == <<"\n\n[Error parsing stream data]">>

\* cand.content.parts.map(p => p.text).join(SEP): join prints undefined as ""
RECURSIVE JoinSepP(_)
JoinSepP(parts) ==
  IF parts = << >> THEN << >>
  ELSE IF Len(parts) = 1 THEN (IF parts[1].has THEN parts[1].text ELSE << >>)
  ELSE (IF parts[1].has THEN parts[1].text ELSE << >>) \o SEPP \o JoinSepP(Tail(parts))

\* cand.content.parts.map(p => p.text).filter(Boolean).join("")
RECURSIVE TextContent(_)
TextContent(parts) ==
  IF parts = << >> THEN << >>
  ELSE (IF parts[1].has THEN parts[1].text ELSE << >>) \o TextContent(Tail(parts))

\* reasonsMap[cand.finishReason] || cand.finishReason || "stop" (line 436)
StopReasonP(cand) ==
  IF cand.finishReason \in DOMAIN reasonsMapP THEN reasonsMapP[cand.finishReason]
  ELSE IF cand.finishReason # "" THEN cand.finishReason
  ELSE "stop"

\* transformCandidates("delta", cand).  It throws on a null candidate
\* (cand.index) and on a content without parts (undefined.map); a candidate
\* without content gets no delta.content (undefined is not serialised).
transformCandidatesP(cand) ==
  [throws |-> cand.isNull \/ cand.content = "noparts",
   index |-> IndexOf(cand), role |-> TRUE,
   hasContent |-> cand.content = "parts",
   content |-> IF cand.content = "parts" THEN JoinSepP(cand.parts) ELSE << >>]

transformUsageP(u) ==
  [prompt_tokens |-> u.prompt, completion_tokens |-> u.completion,
   total_tokens |-> u.total]

\* transformResponseStream(data, stop, first): the records it yields (<< >>
\* where it returns null) and whether it throws
transformResponseStreamP(d, stop, first) ==
  IF ~d.set \/ d.data.kind # "obj" \/ d.data.ck # "array" \/ d.data.cands = << >>
  THEN [emit |-> << >>, throws |-> FALSE]
  ELSE
    LET cand == d.data.cands[1]
        item == transformCandidatesP(cand)
    IN IF item.throws THEN [emit |-> << >>, throws |-> TRUE]
       ELSE [throws |-> FALSE,
             emit |->
               IF first
               THEN <<Chunk(item.index, TRUE, TRUE, << >>,
                            IF stop THEN StopReasonP(cand) ELSE Null,
                            "absent", NoTotals)>>
               ELSE IF stop
               THEN <<Chunk(item.index, FALSE, FALSE, << >>, StopReasonP(cand),
                            "absent", NoTotals)>>
               ELSE <<Chunk(item.index, FALSE, item.hasContent, item.content, Null,
                            "absent", NoTotals)>>]

\* toOpenAiStream(chunk, controller) on this.last = lst and
\* this.lastReceivedData = lrd
toOpenAiStreamP(line, lst, lrd) ==
  LET same == [last |-> lst, lrd |-> lrd, emit |-> << >>, throws |-> FALSE] IN
  CASE line.kind = "empty" -> same
    [] line.kind = "bad" ->
         [same EXCEPT !.emit = <<Chunk(0, TRUE, TRUE, MsgParseError, "error",
                                       "absent", NoTotals)>>]
    [] line.kind = "null" ->
         \* lastReceivedData = null, then data.promptFeedback throws
         [same EXCEPT !.lrd = Hole, !.throws = TRUE]
    [] OTHER ->
         IF line.ck # "array" \/ line.cands = << >>
         THEN [same EXCEPT !.lrd = Slot(line)]
         ELSE IF Primary(line.cands).isNull
         THEN [same EXCEPT !.lrd = Slot(line), !.throws = TRUE]
         ELSE
           LET idx == IndexOf(Primary(line.cands))
               cand == [Primary(line.cands) EXCEPT !.index = idx]
               data == [line EXCEPT !.cands[1] = cand]
               hdr == IF Unseen(lst, idx)
                      THEN transformResponseStreamP(Slot(data), FALSE, TRUE)
                      ELSE [emit |-> << >>, throws |-> FALSE]
               body == IF cand.content = "parts" /\ cand.parts # << >>
                          /\ TextContent(cand.parts) # << >>
                       THEN transformResponseStreamP(Slot(data), FALSE, FALSE)
                       ELSE [emit |-> << >>, throws |-> FALSE]
           IN IF hdr.throws
              THEN [same EXCEPT !.lrd = Slot(data), !.throws = TRUE]
              ELSE [last |-> ArraySet(lst, idx, data), lrd |-> Slot(data),
                    emit |-> hdr.emit \o body.emit, throws |-> body.throws]

\* finalUsage of toOpenAiStreamFlush (lines 535-538): "null" or "totals"
FinalUsage(lrd, include) ==
  IF lrd.set /\ lrd.data.usage.present /\ include THEN "totals" ELSE "null"

\* finalChunkStrBase with outputJson.usage = finalUsage (lines 550-552)
WithUsage(chunk, u) ==
  [chunk EXCEPT !.usage = "totals", !.totals = transformUsageP(u)]

\* the loop of toOpenAiStreamFlush from entry i of this.last on
RECURSIVE FlushLoopP(_, _, _, _)
FlushLoopP(lst, i, lrd, include) ==
  IF i > Len(lst) THEN [emit |-> << >>, throws |-> FALSE]
  ELSE IF ~lst[i].set THEN FlushLoopP(lst, i + 1, lrd, include)
  ELSE
    LET r == transformResponseStreamP(lst[i], TRUE, FALSE) IN
    IF r.throws THEN [emit |-> << >>, throws |-> TRUE]
    ELSE IF r.emit = << >> THEN FlushLoopP(lst, i + 1, lrd, include)
    ELSE
      LET c == IF i = Len(lst) /\ FinalUsage(lrd, include) = "totals"
               THEN WithUsage(r.emit[1], lrd.data.usage)
               ELSE r.emit[1]
          rest == FlushLoopP(lst, i + 1, lrd, include)
      IN [emit |-> <<c>> \o rest.emit, throws |-> rest.throws]

\* toOpenAiStreamFlush(controller): the records enqueued and whether it throws
toOpenAiStreamFlushP(lst, lrd, include) ==
  LET loop == FlushLoopP(lst, 1, lrd, include)
      fu == FinalUsage(lrd, include)
      finalChoice ==
        Chunk(0, FALSE, FALSE, << >>,
              IF lrd.data.blockReason THEN "content_filter" ELSE "error",
              fu,
              IF fu = "totals" THEN transformUsageP(lrd.data.usage) ELSE NoTotals)
  IN IF loop.throws THEN loop
     ELSE [throws |-> FALSE,
           emit |-> loop.emit
                    \o (IF loop.emit = << >> /\ lrd.set THEN <<finalChoice>> ELSE << >>)
                    \o <<Done>>]

----------------------------------------------------------------------------
(* The request transformer (the same text in both copies) *)

\* A model name is a sequence of tokens: the prefixes the code tests for are
\* one token each.  req.model may be no string at all.
ModelName(isString, name) == [isString |-> isString, name |-> name]
DEFAULT_MODEL == <<"gemini-", "2.0-flash">>

\* name.startsWith(prefix)
StartsWith(name, prefix) == Len(name) >= 1 /\ name[1] = prefix

\* a resolution that keeps the prefix models/
ResolveModel_NoStrip(m) ==
  IF ~m.isString THEN DEFAULT_MODEL
  ELSE IF \/ StartsWith(m.name, "models/")
          \/ StartsWith(m.name, "gemini-")
          \/ StartsWith(m.name, "gemma-")
          \/ StartsWith(m.name, "learnlm-") THEN m.name
  ELSE DEFAULT_MODEL

\* the switch (true) at the head of handleCompletions: the model of the URL
ResolveModel(m) ==
  IF ~m.isString THEN DEFAULT_MODEL
  ELSE IF StartsWith(m.name, "models/") THEN Tail(m.name)
  ELSE IF \/ StartsWith(m.name, "gemini-")
          \/ StartsWith(m.name, "gemma-")
          \/ StartsWith(m.name, "learnlm-") THEN m.name
  ELSE DEFAULT_MODEL

\* req.response_format: absent, or an object with a type.  schema tells what
\* json_schema.schema is: "absent", "object" (no enum key), "enum" (an object
\* with an enum key) or "string" (a non-empty string, no object).
Format(present, type, schema) == [present |-> present, type |-> type, schema |-> schema]
NoFormat == Format(FALSE, "", "absent")

\* generationConfig; "absent" marks a key that is not set.  temperature
\* stands for the keys of fieldsMap, copied one by one.
Config(temperature, mime, schema) ==
  [temperature |-> temperature, responseMimeType |-> mime, responseSchema |-> schema]

\* What a function of the request transformer does: it returns value, or it
\* throws ("HttpError" with status 400, "TypeError", "Error").
Returns(v) == [throws |-> "none", value |-> v]
Throws(e, v) == [throws |-> e, value |-> v]

\* a configuration that answers every format with application/json
transformConfig_AlwaysJson(temperature, rf) ==
  Returns(Config(temperature, IF rf.present THEN "application/json" ELSE "absent",
                 rf.schema))

\* transformConfig(req)
transformConfig(temperature, rf) ==
  IF ~rf.present THEN Returns(Config(temperature, "absent", "absent"))
  ELSE CASE rf.type = "json_schema" ->
              IF rf.schema = "string"
              THEN Throws("TypeError", Config(temperature, "absent", "absent"))
              ELSE IF rf.schema = "enum"
              THEN Returns(Config(temperature, "text/x.enum", "enum"))
              ELSE Returns(Config(temperature, "application/json", rf.schema))
         [] rf.type = "json_object" -> Returns(Config(temperature, "application/json", "absent"))
         [] rf.type = "text" -> Returns(Config(temperature, "text/plain", "absent"))
         [] OTHER -> Throws("HttpError", Config(temperature, "absent", "absent"))

\* One item of a content array.  url names the image: "data" (a data: URL),
\* "nodata" (neither http(s) nor a data: URL), "http" (a remote image that
\* is fetched), "http404" (a remote image whose fetch fails).
Item(type, text, url) == [type |-> type, text |-> text, url |-> url]
TextItem(t) == Item("text", t, "none")
ImageItem(url) == Item("image_url", << >>, url)
AudioItem == Item("input_audio", << >>, "none")

\* One part of a vendor turn: { text } or { inlineData }; src names the
\* image or "audio"
TextPart(t) == [kind |-> "text", text |-> t, src |-> "none"]
InlinePart(src) == [kind |-> "inlineData", text |-> << >>, src |-> src]

\* a fetch whose failure is ignored
parseImg_BestEffort(url) == Returns(InlinePart(url))

\* parseImg(url)
parseImg(url) ==
  IF url \in {"data", "http"} THEN Returns(InlinePart(url))
  ELSE Throws("Error", InlinePart(url))

\* the for-of loop of transformMsg over content: it stops where an item throws
RECURSIVE PartsOf(_)
PartsOf(items) ==
  IF items = << >> THEN Returns(<< >>)
  ELSE LET item == Head(items)
           one == CASE item.type = "text" -> Returns(TextPart(item.text))
                    [] item.type = "image_url" -> parseImg(item.url)
                    [] item.type = "input_audio" -> Returns(InlinePart("audio"))
                    [] OTHER -> Throws("TypeError", TextPart(<< >>))
           rest == PartsOf(Tail(items))
       IN IF one.throws # "none" THEN Throws(one.throws, << >>)
          ELSE IF rest.throws # "none" THEN rest
          ELSE Returns(<<one.value>> \o rest.value)

\* A message; its content is a string (text) or an array (items)
Content(isArray, text, items) == [isArray |-> isArray, text |-> text, items |-> items]
Message(role, content) == [role |-> role, content |-> content]
\* A vendor turn; role "none" when the message had its role deleted
Turn(role, parts) == [role |-> role, parts |-> parts]

\* a test that no content passes
AllImages_Never(items) == FALSE

\* content.every(item => item.type === "image_url")
AllImages(items) == \A k \in 1..Len(items) : items[k].type = "image_url"

\* transformMsg({ role, content })
transformMsg(role, content) ==
  IF ~content.isArray THEN Returns(Turn(role, <<TextPart(content.text)>>))
  ELSE LET parts == PartsOf(content.items)
       IN IF parts.throws # "none" THEN Throws(parts.throws, Turn(role, << >>))
          ELSE Returns(Turn(role, parts.value \o (IF AllImages(content.items)
                                                  THEN <<TextPart(<< >>)>> ELSE << >>)))

\* the turn pushed for a conversation of system messages only (its parts is
\* the object { text: " " }, no array)
SyntheticTurn == Turn("model", <<TextPart(<<" ">>)>>)

\* what transformMessages has gathered
Gathered(hasSystem, system_instruction, contents) ==
  [hasSystem |-> hasSystem, system_instruction |-> system_instruction,
   contents |-> contents]

\* every role left as it is
VendorRole_Keep(role) == role

\* the role of the turn: deleted for a system message (delete item.role),
\* item.role === "assistant" ? "model" : "user" for the others
VendorRole(role) ==
  IF role = "system" THEN "none"
  ELSE IF role = "assistant" THEN "model"
  ELSE "user"

\* the for-of loop of transformMessages, with acc gathered so far
RECURSIVE MessagesLoop(_, _)
MessagesLoop(messages, acc) ==
  IF messages = << >> THEN Returns(acc)
  ELSE LET item == Head(messages)
           t == transformMsg(VendorRole(item.role), item.content)
       IN IF t.throws # "none" THEN Throws(t.throws, acc)
          ELSE IF item.role = "system"
          THEN MessagesLoop(Tail(messages), [acc EXCEPT !.hasSystem = TRUE,
                                                        !.system_instruction = t.value])
          ELSE MessagesLoop(Tail(messages),
                            [acc EXCEPT !.contents = Append(acc.contents, t.value)])

\* transformMessages(messages); req.messages absent gives nothing at all
transformMessages(hasMessages, messages) ==
  LET empty == Gathered(FALSE, Turn("none", << >>), << >>)
      loop == MessagesLoop(messages, empty)
  IN IF ~hasMessages THEN Returns(empty)
     ELSE IF loop.throws # "none" THEN loop
     ELSE IF loop.value.hasSystem /\ loop.value.contents = << >>
     THEN Returns([loop.value EXCEPT !.contents = <<SyntheticTurn>>])
     ELSE loop

\* The body sent upstream
VendorRequest(g, cfg) ==
  [hasSystem |-> g.hasSystem, system_instruction |-> g.system_instruction,
   contents |-> g.contents, generationConfig |-> cfg]

\* transformRequest(req): the messages first, then the configuration
transformRequest(r) ==
  LET m == transformMessages(r.hasMessages, r.messages)
      c == transformConfig(r.temperature, r.response_format)
  IN IF m.throws # "none" THEN Throws(m.throws, VendorRequest(m.value, c.value))
     ELSE IF c.throws # "none" THEN Throws(c.throws, VendorRequest(m.value, c.value))
     ELSE Returns(VendorRequest(m.value, c.value))

\* A chat request, as far as the transformer reads it
Request(model, hasMessages, messages, rf, temperature) ==
  [model |-> model, hasMessages |-> hasMessages, messages |-> messages,
   response_format |-> rf, temperature |-> temperature]
NoRequest == Request(ModelName(FALSE, << >>), FALSE, << >>, NoFormat, "absent")

ModelNames ==
  {ModelName(FALSE, << >>),
   ModelName(TRUE, <<"models/", "gemini-", "x">>),
   ModelName(TRUE, <<"models/", "gpt-", "x">>),
   ModelName(TRUE, <<"models/">>),
   ModelName(TRUE, <<"gemini-", "x">>),
   ModelName(TRUE, <<"gemma-", "x">>),
   ModelName(TRUE, <<"learnlm-", "x">>),
   ModelName(TRUE, <<"gpt-", "x">>)}

Formats ==
  {NoFormat, Format(TRUE, "json_object", "absent"), Format(TRUE, "text", "absent"),
   Format(TRUE, "xml", "absent")}
  \cup {Format(TRUE, "json_schema", sc) : sc \in {"absent", "object", "enum", "string"}}

Str(t) == Content(FALSE, t, << >>)
Arr(items) == Content(TRUE, << >>, items)

Messages ==
  {Message("system", Str(<<"sys">>)),
   Message("user", Str(<<"hi">>)),
   Message("assistant", Str(<<"ok">>)),
   Message("tool", Str(<<"res">>)),
   Message("user", Arr(<<TextItem(<<"hi">>), AudioItem, ImageItem("data")>>)),
   Message("user", Arr(<<ImageItem("data"), ImageItem("http")>>)),
   Message("user", Arr(<<ImageItem("http404")>>)),
   Message("user", Arr(<<ImageItem("nodata")>>)),
   Message("user", Arr(<<Item("video", << >>, "none")>>)),
   Message("user", Arr(<< >>))}

MessageLists == UNION {[1..n -> Messages] : n \in 0..MaxMessages}

Requests ==
  {Request(m, TRUE, ms, rf, t) :
     m \in ModelNames, ms \in MessageLists, rf \in Formats, t \in {"absent", "set"}}
  \cup {Request(m, FALSE, << >>, rf, "absent") : m \in ModelNames, rf \in Formats}

\* the fetch of the upstream URL: not issued yet, or issued for a model with
\* a body
Call(made, model, body) == [made |-> made, model |-> model, body |-> body]
NotSent ==
  Call(FALSE, << >>,
       VendorRequest(Gathered(FALSE, Turn("none", << >>), << >>),
                     Config("absent", "absent", "absent")))

\* status of the exception e as errHandler reads it: 0 when it has none
StatusOf(e) == IF e = "HttpError" THEN 400 ELSE 0

----------------------------------------------------------------------------
(* The non-stream response transformer *)

\* A choice of a chat.completion body.  hasContent = FALSE: message.content
\* is undefined (not serialised); finish_reason = Undefined: the same for it.
Undefined == "undefined"
Choice(index, hasContent, content, fin) ==
  [index |-> index, role |-> TRUE, hasContent |-> hasContent, content |-> content,
   finish_reason |-> fin]

\* usage of a chat.completion body: null, or the three counters
UsageNull == [isNull |-> TRUE, totals |-> NoTotals]
UsageOf(t) == [isNull |-> FALSE, totals |-> t]

\* What handleCompletions answers.  kind: "completion" (a chat.completion
\* body), "pipeline" (the translated stream), "errorStream" (the fixed stream
\* of worker.mjs), "apiError" (the {error: ...} body of worker.mjs),
\* "upstream" (the upstream body and status handed on), "errHandler" (the
\* text of the exception, written by the fetch handler).
Reply(kind, status, choices, usage) ==
  [kind |-> kind, status |-> status, choices |-> choices, usage |-> usage]
NoReply == Reply("none", 0, << >>, UsageNull)
Completion(choices, usage) == Reply("completion", 200, choices, usage)

\* the fixed texts worker.mjs substitutes
MsgNoData == <<"[service cannot answer]">>
MsgNoCandidates == <<"[abnormal data structure]">>
MsgNotArray == <<"[unexpected data format]">>
MsgEmptyCandidates == <<"[cannot generate an answer]">>
MsgInvalidJson == <<"[invalid JSON]">>
MsgRequestError == <<"[error while handling the request]">>

\* a { index: 0, message: { role, content: msg }, finish_reason: "error" }
Placeholder(msg) == Choice(0, TRUE, msg, "error")

\* transformCandidatesMessage = transformCandidates.bind(null, "message")
transformCandidatesMessage(cand) == transformCandidates(cand)

RECURSIVE MapCandidates(_)
MapCandidates(cands) ==
  IF cands = << >> THEN << >>
  ELSE <<transformCandidatesMessage(Head(cands))>> \o MapCandidates(Tail(cands))

\* data.usageMetadata ? transformUsage(data.usageMetadata) : { 0, 0, 0 }
UsageOrZero(data) ==
  UsageOf(IF data.usage.present THEN transformUsage(data.usage) ELSE NoTotals)

\* worker.mjs processCompletionsResponse(data, model, id): the body it returns.
\* A truthy data.candidates that is no array becomes the one-element array
\* [].concat(data.candidates).filter(Boolean), held in cands.
processCompletionsResponse(data) ==
  IF data.kind = "null"
  THEN Completion(<<Placeholder(MsgNoData)>>, UsageOf(NoTotals))
  ELSE IF IsPing(data)
  THEN Completion(<<Choice(0, TRUE, <<"pong">>, "stop")>>, UsageOf(transformUsage(data.usage)))
  ELSE IF data.ck = "absent"
  THEN Completion(<<Placeholder(MsgNoCandidates)>>, UsageOrZero(data))
  ELSE IF data.ck = "notarray" /\ data.cands = << >>
  THEN Completion(<<Placeholder(MsgNotArray)>>, UsageOrZero(data))
  ELSE IF data.cands = << >>
  THEN Completion(<<Placeholder(MsgEmptyCandidates)>>, UsageOrZero(data))
  ELSE Completion(MapCandidates(data.cands), UsageOrZero(data))

\* part_000: reasonsMap[cand.finishReason] || cand.finishReason
FinishReasonP(cand) ==
  IF cand.finishReason \in DOMAIN reasonsMapP THEN reasonsMapP[cand.finishReason]
  ELSE IF cand.finishReason # "" THEN cand.finishReason
  ELSE Undefined

\* part_000 transformCandidatesMessage
transformCandidatesMessageP(cand) ==
  [throws |-> transformCandidatesP(cand).throws,
   choice |-> Choice(IndexOf(cand), transformCandidatesP(cand).hasContent,
                     transformCandidatesP(cand).content, FinishReasonP(cand))]

RECURSIVE MapCandidatesP(_)
MapCandidatesP(cands) ==
  IF cands = << >> THEN [throws |-> FALSE, choices |-> << >>]
  ELSE LET h == transformCandidatesMessageP(Head(cands))
           t == MapCandidatesP(Tail(cands))
       IN [throws |-> h.throws \/ t.throws, choices |-> <<h.choice>> \o t.choices]

\* part_000 processCompletionsResponse(data, model, id): the body it returns
\* and whether it throws
processCompletionsResponseP(data) ==
  LET mapped == IF data.kind = "obj" /\ data.ck = "array"
                THEN MapCandidatesP(data.cands)
                ELSE [throws |-> FALSE, choices |-> << >>]
      usage == IF data.kind = "obj" /\ data.usage.present
               THEN UsageOf(transformUsageP(data.usage))
               ELSE UsageNull
  IN [throws |-> mapped.throws, reply |-> Completion(mapped.choices, usage)]

----------------------------------------------------------------------------
(* handleCompletions *)

\* the finishReason values of a candidate; "" is an absent one
FinishReasons == {"STOP", "MAX_TOKENS", "SAFETY", "RECITATION", "WEIRD", ""}

\* what a candidate of a non-streaming response may look like
Shape(isNull, content, parts, fr) ==
  [isNull |-> isNull, content |-> content, parts |-> parts, finishReason |-> fr]
Shapes ==
  {Shape(FALSE, "parts", <<T(<<"Hello, ">>), T(<<"world!">>)>>, fr) : fr \in FinishReasons}
  \cup {Shape(FALSE, "parts", <<T(<<"a">>), NoTextPart>>, "STOP"),
        Shape(FALSE, "parts", << >>, "STOP"),
        Shape(FALSE, "noparts", << >>, ""),
        Shape(FALSE, "absent", << >>, "SAFETY"),
        Shape(TRUE, "absent", << >>, "")}

\* the candidate at position k (from 1) of data.candidates: the vendor numbers
\* the candidates by position and leaves the index 0 out
CandAt(k, shape) ==
  IF shape.isNull THEN NullCand
  ELSE Cand(IF k = 1 THEN NoIndex ELSE k - 1, shape.content, shape.parts,
            shape.finishReason)

CandLists ==
  UNION {{[k \in 1..n |-> CandAt(k, f[k])] : f \in [1..n -> Shapes]} : n \in 0..MaxCands}

\* The bodies of a non-streaming upstream response, as JSON.parse sees them.
\* A data.candidates that is no array is a string, or a single candidate
\* object.
Responses ==
  {Line("bad"), Line("null")}
  \cup {Obj("absent", << >>, u, mv, FALSE) :
          u \in {NoUsage, SmallUsage, BigUsage}, mv \in BOOLEAN}
  \cup {Obj("notarray", <<c>>, u, FALSE, FALSE) :
          c \in {Cand(NoIndex, "absent", << >>, ""),
                 Cand(1, "parts", <<T(<<"a">>)>>, "STOP")},
          u \in {NoUsage, BigUsage}}
  \cup {Obj("array", cs, u, FALSE, FALSE) : cs \in CandLists, u \in {NoUsage, BigUsage}}

\* How the upstream call ends.  "throws": transformRequest or fetch throws
\* (status 400 for an HttpError, 0 for an error without a status); "notok":
\* response.ok is false; "ok" carries the body of a non-streaming response.
Outcome(kind, status, data) == [kind |-> kind, status |-> status, data |-> data]
NoOutcome == Outcome("pending", 0, Line("empty"))
Outcomes(isStream) ==
  {Outcome("throws", st, Line("empty")) : st \in {0, 400}}
  \cup {Outcome("notok", st, Line("empty")) : st \in {400, 429, 500}}
  \cup (IF isStream THEN {Outcome("ok", 200, Line("empty"))}
        ELSE {Outcome("ok", 200, d) : d \in Responses})

\* the three records of the errorStream of worker.mjs
ErrorStream ==
  <<Chunk(0, TRUE, TRUE, << >>, Null, "absent", NoTotals),
    Chunk(0, FALSE, FALSE, << >>, "error", "absent", NoTotals),
    Done>>

\* worker.mjs handleCompletions(req, apiKey) with req.stream = isStream when
\* the upstream call ends as o: the Response, the records of its stream and
\* the state of the stream
handleCompletions(isStream, o) ==
  LET errorStream == [reply |-> Reply("errorStream", 200, << >>, UsageNull),
                      out |-> ErrorStream, phase |-> "closed"]
      json(r) == [reply |-> r, out |-> << >>, phase |-> "idle"]
  IN CASE o.kind = "throws" ->
            IF isStream THEN errorStream
            ELSE json(Completion(<<Placeholder(MsgRequestError)>>, UsageOf(NoTotals)))
       [] o.kind = "notok" ->
            IF isStream THEN errorStream
            ELSE json(Reply("apiError", 200, << >>, UsageNull))
       [] OTHER ->
            IF isStream
            THEN [reply |-> Reply("pipeline", 200, << >>, UsageNull),
                  out |-> << >>, phase |-> "open"]
            ELSE IF o.data.kind = "bad"
            THEN json(Completion(<<Placeholder(MsgInvalidJson)>>, UsageOf(NoTotals)))
            ELSE json(processCompletionsResponse(o.data))

\* err.status ?? 500 in errHandler
ErrStatus(st) == IF st = 0 THEN 500 ELSE st

\* part_000 handleCompletions(req, apiKey), with the .catch(errHandler) of
\* the fetch handler
handleCompletionsP(isStream, o) ==
  LET errHandler(st) == [reply |-> Reply("errHandler", ErrStatus(st), << >>, UsageNull),
                         out |-> << >>, phase |-> "idle"]
      json(r) == [reply |-> r, out |-> << >>, phase |-> "idle"]
  IN CASE o.kind = "throws" -> errHandler(o.status)
       [] o.kind = "notok" -> json(Reply("upstream", o.status, << >>, UsageNull))
       [] OTHER ->
            IF isStream
            THEN [reply |-> Reply("pipeline", 200, << >>, UsageNull),
                  out |-> << >>, phase |-> "open"]
            ELSE IF o.data.kind = "bad" THEN errHandler(0)
            ELSE IF processCompletionsResponseP(o.data).throws THEN errHandler(0)
            ELSE json(processCompletionsResponseP(o.data).reply)

----------------------------------------------------------------------------
(* parseStream, the frame reassembler (the same text in both copies).       *)
(* Here text is a sequence of characters, one string per character.         *)

\* the literal start of responseLineRE, "data: "
DataPrefix == <<"d", "a", "t", "a", ":", " ">>

\* "." of a JavaScript regular expression without the s flag matches every
\* character but the line terminators \n, \r, U+2028 and U+2029
Dot(c) == c \notin {"\n", "\r", "U+2028", "U+2029"}

\* the alternatives of (?:\n\n|\r\r|\r\n\r\n), in the order they are tried
Terminators == << <<"\n", "\n">>, <<"\r", "\r">>, <<"\r", "\n", "\r", "\n">> >>

\* text s holds p from position at on
HasAt(s, p, at) ==
  /\ at + Len(p) - 1 <= Len(s)
  /\ SubSeq(s, at, at + Len(p) - 1) = p

\* the terminator alternative that matches at position at: 0 when none does
TerminatorAt(s, at) ==
  IF HasAt(s, Terminators[1], at) THEN 1
  ELSE IF HasAt(s, Terminators[2], at) THEN 2
  ELSE IF HasAt(s, Terminators[3], at) THEN 3
  ELSE 0

\* a match without the anchor ^: the first record found anywhere in the buffer
responseLineRE_Unanchored(buf) ==
  LET ends(st) == {j \in (st + Len(DataPrefix) - 1)..Len(buf) :
                     /\ HasAt(buf, DataPrefix, st)
                     /\ \A k \in (st + Len(DataPrefix))..j : Dot(buf[k])
                     /\ TerminatorAt(buf, j + 1) # 0}
      starts == {st \in 1..Len(buf) : ends(st) # {}}
  IN IF starts = {} THEN [matched |-> FALSE, group |-> << >>, len |-> 0]
     ELSE LET st == CHOOSE a \in starts : \A b \in starts : a <= b
              j == CHOOSE e \in ends(st) : \A o \in ends(st) : o <= e
          IN [matched |-> TRUE,
              group |-> SubSeq(buf, st + Len(DataPrefix), j),
              len |-> j + Len(Terminators[TerminatorAt(buf, j + 1)])]

\* this.buffer.match(responseLineRE): ^ anchors at the start of the buffer,
\* (.*) is greedy, so of all the ends of the group that let the rest match
\* the largest is taken.  match[1] is the group, len is match[0].length.
responseLineRE(buf) ==
  LET ends == {j \in Len(DataPrefix)..Len(buf) :
                 /\ HasAt(buf, DataPrefix, 1)
                 /\ \A k \in (Len(DataPrefix) + 1)..j : Dot(buf[k])
                 /\ TerminatorAt(buf, j + 1) # 0}
  IN IF ends = {} THEN [matched |-> FALSE, group |-> << >>, len |-> 0]
     ELSE LET j == CHOOSE e \in ends : \A o \in ends : o <= e
          IN [matched |-> TRUE,
              group |-> SubSeq(buf, Len(DataPrefix) + 1, j),
              len |-> j + Len(Terminators[TerminatorAt(buf, j + 1)])]

\* the do ... while (true) loop of parseStream on the buffer
RECURSIVE MatchLoop(_)
MatchLoop(buf) ==
  LET match == responseLineRE(buf) IN
  IF ~match.matched THEN [buffer |-> buf, emit |-> << >>]
  ELSE LET r == MatchLoop(SubSeq(buf, match.len + 1, Len(buf)))
       IN [buffer |-> r.buffer, emit |-> <<match.group>> \o r.emit]

\* parseStream(chunk, controller) with this.buffer = buf
parseStream(buf, chunk) ==
  IF chunk = << >> THEN [buffer |-> buf, emit |-> << >>]
  ELSE MatchLoop(buf \o chunk)

\* a flush without the test of this.buffer
parseStreamFlush_NoTest(buf) == <<buf>>

\* parseStreamFlush(controller) with this.buffer = buf: what it enqueues
parseStreamFlush(buf) == IF buf # << >> THEN <<buf>> ELSE << >>

\* One record of the upstream body: a data record, or a comment line
DataRecord(payload, t) == [kind |-> "data", payload |-> payload, term |-> Terminators[t]]
CommentRecord == [kind |-> "comment", payload |-> <<"x">>, term |-> Terminators[1]]

\* the characters of a record as they travel
RecordText(r) ==
  (IF r.kind = "data" THEN DataPrefix ELSE <<":">>) \o r.payload \o r.term

\* payloads: empty, one and two characters, and one with a U+2028 inside
\* (JSON allows that character unescaped in a string)
PayloadTexts == {<< >>, <<"x">>, <<"x", "y">>, <<"x", "U+2028", "y">>}

Records ==
  {DataRecord(p, t) : p \in PayloadTexts, t \in 1..Len(Terminators)} \cup {CommentRecord}

\* the bodies the upstream may send
Bodies == UNION {[1..n -> Records] : n \in 0..MaxRecords}

RECURSIVE BodyText(_)
BodyText(recs) ==
  IF recs = << >> THEN << >> ELSE RecordText(Head(recs)) \o BodyText(Tail(recs))

----------------------------------------------------------------------------
(* Two streaming requests in flight (the same text in both copies) *)

Reqs == {1, 2}

\* one object read as this by the callbacks of every request
Owner_Shared(r) == 1

\* new TransformStream({ ..., buffer: "" }) and new TransformStream({ ...,
\* last: [] }): every call of handleCompletions constructs the objects its
\* callbacks read as this.  Owner(r) names the objects of request r.
Owner(r) == r
Owners == {Owner(r) : r \in Reqs}

\* what the two objects of a pipeline hold
Store(buf, lst, lrd) == [buffer |-> buf, last |-> lst, lastReceivedData |-> lrd]
NewStore == Store(<< >>, << >>, Hole)

\* JSON.parse(line) of toOpenAiStream.  The characters a, b and s are the
\* JSON texts of three payloads; any other text is not JSON.
JSONparse(text) ==
  CASE text = << >> -> Line("empty")
    [] text = <<"a">> -> One(Cand(0, "parts", <<T(<<"a">>)>>, ""), NoUsage)
    [] text = <<"b">> -> One(Cand(1, "parts", <<T(<<"a">>)>>, ""), NoUsage)
    [] text = <<"s">> -> One(Cand(0, "parts", <<T(<<"a">>), T(<<"b">>)>>, "STOP"), BigUsage)
    [] OTHER -> Line("bad")

\* the bodies of the two upstream responses: two payloads for index 0; a
\* payload for index 1 and one that is not JSON; a payload and a record cut
\* off before its end
TwoBodies ==
  {BodyText(<<DataRecord(<<"a">>, 1), DataRecord(<<"s">>, 3)>>),
   BodyText(<<DataRecord(<<"b">>, 1), DataRecord(<<"{">>, 2)>>),
   BodyText(<<DataRecord(<<"a">>, 1)>>) \o DataPrefix \o <<"b">>}

----------------------------------------------------------------------------
(* One streaming request *)

VARIABLES
  impl,                \* "worker" (src/src/worker.mjs) or "part" (src/unnamed/part_000)
  streamIncludeUsage,  \* req.stream_options?.include_usage, as a truth value
  last,                \* this.last
  lastReceivedData,    \* this.lastReceivedData (part_000 only)
  out,                 \* the records enqueued so far
  phase,               \* "open"; "errored" (toOpenAiStream threw); "flushed";
                       \* "flush_errored" (toOpenAiStreamFlush threw)
  fed,                 \* the payloads handed to toOpenAiStream so far
  records,             \* the records of the upstream body
  pos,                 \* how many characters of the body have arrived
  buffer,              \* this.buffer of the reassembler
  enqueued,            \* what the reassembler enqueued so far
  reader,              \* "idle"; "reading"; "closed" (parseStreamFlush ran)
  stream,              \* req.stream, as a truth value
  upstream,            \* how the upstream call ended
  reply,               \* the Response of handleCompletions
  req,                 \* the chat request
  sent,                \* the upstream call issued for it
  bodies,              \* two requests: the body of each upstream response
  arrived,             \* how many characters of each body have arrived
  readers,             \* "reading" or "closed" (parseStreamFlush ran), for each
  queued,              \* the payloads enqueued for each translator, not taken yet
  outs,                \* the records each request has enqueued so far
  phases,              \* the phase of each translator
  includes,            \* stream_options.include_usage of each request
  stores               \* the objects the callbacks read as this, by owner

streamVars == <<streamIncludeUsage, last, lastReceivedData, out, phase, fed>>
parseVars == <<records, pos, buffer, enqueued, reader>>
callVars == <<stream, upstream, reply>>
reqVars == <<req, sent>>
twoVars == <<bodies, arrived, readers, queued, outs, phases, includes, stores>>
vars == <<impl, streamVars, parseVars, callVars, reqVars, twoVars>>

\* no second request
TwoIdle ==
  /\ bodies = [r \in Reqs |-> << >>]
  /\ arrived = [r \in Reqs |-> 0]
  /\ readers = [r \in Reqs |-> "idle"]
  /\ queued = [r \in Reqs |-> << >>]
  /\ outs = [r \in Reqs |-> << >>]
  /\ phases = [r \in Reqs |-> "idle"]
  /\ includes = [r \in Reqs |-> FALSE]
  /\ stores = [k \in Owners |-> NewStore]

\* the request is not looked at
RequestIdle ==
  /\ req = NoRequest
  /\ sent = NotSent

\* a streaming request whose upstream call succeeded
CallStreaming ==
  /\ stream = TRUE
  /\ upstream = Outcome("ok", 200, Line("empty"))
  /\ reply = Reply("pipeline", 200, << >>, UsageNull)

\* the translator before it is constructed
StreamIdle ==
  /\ streamIncludeUsage = FALSE
  /\ last = << >>
  /\ lastReceivedData = Hole
  /\ out = << >>
  /\ phase = "idle"
  /\ fed = << >>

\* the reassembler before it is constructed
ParseIdle ==
  /\ records = << >>
  /\ pos = 0
  /\ buffer = << >>
  /\ enqueued = << >>
  /\ reader = "idle"

Init ==
  /\ impl \in {"worker", "part"}
  /\ streamIncludeUsage \in BOOLEAN
  /\ last = << >>
  /\ lastReceivedData = Hole
  /\ out = << >>
  /\ phase = "open"
  /\ fed = << >>
  /\ ParseIdle
  /\ CallStreaming
  /\ RequestIdle
  /\ TwoIdle

\* worker.mjs: the transform callback takes one payload
Transform ==
  /\ impl = "worker"
  /\ phase = "open"
  /\ Len(fed) < MaxFrames
  /\ \E line \in Frames :
       LET r == toOpenAiStream(line, last, streamIncludeUsage) IN
       /\ fed' = Append(fed, line)
       /\ last' = r.last
       /\ out' = out \o r.emit
       /\ phase' = IF r.throws THEN "errored" ELSE "open"
  /\ UNCHANGED <<impl, streamIncludeUsage, lastReceivedData, parseVars, callVars, reqVars, twoVars>>

\* worker.mjs: the flush callback runs when the upstream ends
Flush ==
  /\ impl = "worker"
  /\ phase = "open"
  /\ out' = out \o toOpenAiStreamFlush(last, streamIncludeUsage)
  /\ phase' = "flushed"
  /\ UNCHANGED <<impl, streamIncludeUsage, last, lastReceivedData, fed, parseVars, callVars, reqVars, twoVars>>

\* part_000: the transform callback takes one payload
TransformP ==
  /\ impl = "part"
  /\ phase = "open"
  /\ Len(fed) < MaxFrames
  /\ \E line \in Frames :
       LET r == toOpenAiStreamP(line, last, lastReceivedData) IN
       /\ fed' = Append(fed, line)
       /\ last' = r.last
       /\ lastReceivedData' = r.lrd
       /\ out' = out \o r.emit
       /\ phase' = IF r.throws THEN "errored" ELSE "open"
  /\ UNCHANGED <<impl, streamIncludeUsage, parseVars, callVars, reqVars, twoVars>>

\* part_000: the flush callback runs when the upstream ends
FlushP ==
  /\ impl = "part"
  /\ phase = "open"
  /\ LET r == toOpenAiStreamFlushP(last, lastReceivedData, streamIncludeUsage) IN
       /\ out' = out \o r.emit
       /\ phase' = IF r.throws THEN "flush_errored" ELSE "flushed"
  /\ UNCHANGED <<impl, streamIncludeUsage, last, lastReceivedData, fed, parseVars, callVars, reqVars, twoVars>>

Next == Transform \/ Flush \/ TransformP \/ FlushP

Spec == Init /\ [][Next]_vars

----------------------------------------------------------------------------
(* The reassembler of one streaming request *)

InitParse ==
  /\ impl \in {"worker", "part"}
  /\ StreamIdle
  /\ records \in Bodies
  /\ pos = 0
  /\ buffer = << >>
  /\ enqueued = << >>
  /\ reader = "reading"
  /\ CallStreaming
  /\ RequestIdle
  /\ TwoIdle

\* the transform callback takes the next chunk of the body: any number of
\* characters, none included (if (!chunk) { return; })
ParseChunk ==
  /\ reader = "reading"
  /\ \E n \in 0..(Len(BodyText(records)) - pos) :
       LET chunk == SubSeq(BodyText(records), pos + 1, pos + n)
           r == parseStream(buffer, chunk)
       IN /\ pos' = pos + n
          /\ buffer' = r.buffer
          /\ enqueued' = enqueued \o r.emit
  /\ UNCHANGED <<impl, streamVars, callVars, reqVars, twoVars, records, reader>>

\* the flush callback runs when the body ends, wherever that is
ParseFlush ==
  /\ reader = "reading"
  /\ enqueued' = enqueued \o parseStreamFlush(buffer)
  /\ reader' = "closed"
  /\ UNCHANGED <<impl, streamVars, callVars, reqVars, twoVars, records, pos, buffer>>

NextParse == ParseChunk \/ ParseFlush

SpecParse == InitParse /\ [][NextParse]_vars

----------------------------------------------------------------------------
(* One call of handleCompletions.  For a streaming request with a successful *)
(* upstream call it ends where Init and InitParse begin.                     *)

InitCall ==
  /\ impl \in {"worker", "part"}
  /\ stream \in BOOLEAN
  /\ upstream = NoOutcome
  /\ reply = NoReply
  /\ streamIncludeUsage \in BOOLEAN
  /\ last = << >>
  /\ lastReceivedData = Hole
  /\ out = << >>
  /\ phase = "idle"
  /\ fed = << >>
  /\ ParseIdle
  /\ RequestIdle
  /\ TwoIdle

\* worker.mjs: the request is answered
Handle ==
  /\ impl = "worker"
  /\ upstream = NoOutcome
  /\ \E o \in Outcomes(stream) :
       LET r == handleCompletions(stream, o) IN
       /\ upstream' = o
       /\ reply' = r.reply
       /\ out' = r.out
       /\ phase' = r.phase
  /\ UNCHANGED <<impl, stream, streamIncludeUsage, last, lastReceivedData, fed, parseVars, reqVars, twoVars>>

\* part_000: the request is answered
HandleP ==
  /\ impl = "part"
  /\ upstream = NoOutcome
  /\ \E o \in Outcomes(stream) :
       LET r == handleCompletionsP(stream, o) IN
       /\ upstream' = o
       /\ reply' = r.reply
       /\ out' = r.out
       /\ phase' = r.phase
  /\ UNCHANGED <<impl, stream, streamIncludeUsage, last, lastReceivedData, fed, parseVars, reqVars, twoVars>>

NextCall == Handle \/ HandleP

SpecCall == InitCall /\ [][NextCall]_vars

----------------------------------------------------------------------------
(* The head of handleCompletions: the model is resolved and the request is  *)
(* transformed; the upstream call is issued when that did not throw.        *)

InitBuild ==
  /\ impl \in {"worker", "part"}
  /\ stream \in BOOLEAN
  /\ upstream = NoOutcome
  /\ reply = NoReply
  /\ StreamIdle
  /\ ParseIdle
  /\ RequestIdle
  /\ TwoIdle

\* worker.mjs: lines 142-163, and the catch of line 305 when they throw
Build ==
  /\ impl = "worker"
  /\ ~sent.made
  /\ reply = NoReply
  /\ \E r \in Requests :
       \E t \in {transformRequest(r)} :
         /\ req' = r
         /\ IF t.throws = "none"
            THEN /\ sent' = Call(TRUE, ResolveModel(r.model), t.value)
                 /\ UNCHANGED <<upstream, reply, out, phase>>
            ELSE \E o \in {Outcome("throws", StatusOf(t.throws), Line("empty"))} :
                 \E h \in {handleCompletions(stream, o)} :
                   /\ upstream' = o
                   /\ reply' = h.reply
                   /\ out' = h.out
                   /\ phase' = h.phase
                   /\ UNCHANGED sent
  /\ UNCHANGED <<impl, stream, streamIncludeUsage, last, lastReceivedData, fed, parseVars, twoVars>>

\* part_000: lines 142-161, and the errHandler of the fetch handler when
\* they throw
BuildP ==
  /\ impl = "part"
  /\ ~sent.made
  /\ reply = NoReply
  /\ \E r \in Requests :
       \E t \in {transformRequest(r)} :
         /\ req' = r
         /\ IF t.throws = "none"
            THEN /\ sent' = Call(TRUE, ResolveModel(r.model), t.value)
                 /\ UNCHANGED <<upstream, reply, out, phase>>
            ELSE \E o \in {Outcome("throws", StatusOf(t.throws), Line("empty"))} :
                 \E h \in {handleCompletionsP(stream, o)} :
                   /\ upstream' = o
                   /\ reply' = h.reply
                   /\ out' = h.out
                   /\ phase' = h.phase
                   /\ UNCHANGED sent
  /\ UNCHANGED <<impl, stream, streamIncludeUsage, last, lastReceivedData, fed, parseVars, twoVars>>

NextBuild == Build \/ BuildP

SpecBuild == InitBuild /\ [][NextBuild]_vars

\* the call together with the translated stream it may return
\* two streaming requests whose upstream calls succeeded: both pipelines are
\* constructed, nothing has arrived
InitTwo ==
  /\ impl \in {"worker", "part"}
  /\ StreamIdle
  /\ ParseIdle
  /\ CallStreaming
  /\ RequestIdle
  /\ bodies \in [Reqs -> TwoBodies]
  /\ arrived = [r \in Reqs |-> 0]
  /\ readers = [r \in Reqs |-> "reading"]
  /\ queued = [r \in Reqs |-> << >>]
  /\ outs = [r \in Reqs |-> << >>]
  /\ phases = [r \in Reqs |-> "open"]
  /\ includes \in [Reqs -> BOOLEAN]
  /\ stores = [k \in Owners |-> NewStore]

oneVars == <<impl, streamVars, parseVars, callVars, reqVars>>

\* parseStream of one request takes the next chunk of its body
TwoParseChunk ==
  \E r \in Reqs :
    /\ readers[r] = "reading"
    /\ \E n \in 1..(Len(bodies[r]) - arrived[r]) :
         \E p \in {parseStream(stores[Owner(r)].buffer,
                                SubSeq(bodies[r], arrived[r] + 1, arrived[r] + n))} :
           /\ arrived' = [arrived EXCEPT ![r] = @ + n]
           /\ stores' = [stores EXCEPT ![Owner(r)].buffer = p.buffer]
           /\ queued' = [queued EXCEPT ![r] = @ \o p.emit]
    /\ UNCHANGED <<oneVars, bodies, readers, outs, phases, includes>>

\* parseStreamFlush of one request runs when its body has ended
TwoParseFlush ==
  \E r \in Reqs :
    /\ readers[r] = "reading"
    /\ arrived[r] = Len(bodies[r])
    /\ queued' = [queued EXCEPT ![r] = @ \o parseStreamFlush(stores[Owner(r)].buffer)]
    /\ readers' = [readers EXCEPT ![r] = "closed"]
    /\ UNCHANGED <<oneVars, bodies, arrived, outs, phases, includes, stores>>

\* worker.mjs: toOpenAiStream of one request takes its next payload
TwoTransform ==
  \E r \in Reqs :
    /\ impl = "worker"
    /\ phases[r] = "open"
    /\ queued[r] # << >>
    /\ \E t \in {toOpenAiStream(JSONparse(Head(queued[r])), stores[Owner(r)].last,
                                  includes[r])} :
         /\ stores' = [stores EXCEPT ![Owner(r)].last = t.last]
         /\ outs' = [outs EXCEPT ![r] = @ \o t.emit]
         /\ phases' = [phases EXCEPT ![r] = IF t.throws THEN "errored" ELSE "open"]
    /\ queued' = [queued EXCEPT ![r] = Tail(@)]
    /\ UNCHANGED <<oneVars, bodies, arrived, readers, includes>>

\* worker.mjs: toOpenAiStreamFlush of one request runs after its last payload
TwoFlush ==
  \E r \in Reqs :
    /\ impl = "worker"
    /\ phases[r] = "open"
    /\ readers[r] = "closed"
    /\ queued[r] = << >>
    /\ outs' = [outs EXCEPT ![r] = @ \o toOpenAiStreamFlush(stores[Owner(r)].last,
                                                             includes[r])]
    /\ phases' = [phases EXCEPT ![r] = "flushed"]
    /\ UNCHANGED <<oneVars, bodies, arrived, readers, queued, includes, stores>>

\* part_000: toOpenAiStream of one request takes its next payload
TwoTransformP ==
  \E r \in Reqs :
    /\ impl = "part"
    /\ phases[r] = "open"
    /\ queued[r] # << >>
    /\ \E t \in {toOpenAiStreamP(JSONparse(Head(queued[r])), stores[Owner(r)].last,
                                   stores[Owner(r)].lastReceivedData)} :
         /\ stores' = [stores EXCEPT ![Owner(r)].last = t.last,
                                     ![Owner(r)].lastReceivedData = t.lrd]
         /\ outs' = [outs EXCEPT ![r] = @ \o t.emit]
         /\ phases' = [phases EXCEPT ![r] = IF t.throws THEN "errored" ELSE "open"]
    /\ queued' = [queued EXCEPT ![r] = Tail(@)]
    /\ UNCHANGED <<oneVars, bodies, arrived, readers, includes>>

\* part_000: toOpenAiStreamFlush of one request runs after its last payload
TwoFlushP ==
  \E r \in Reqs :
    /\ impl = "part"
    /\ phases[r] = "open"
    /\ readers[r] = "closed"
    /\ queued[r] = << >>
    /\ \E t \in {toOpenAiStreamFlushP(stores[Owner(r)].last,
                                        stores[Owner(r)].lastReceivedData, includes[r])} :
         /\ outs' = [outs EXCEPT ![r] = @ \o t.emit]
         /\ phases' = [phases EXCEPT ![r] = IF t.throws THEN "flush_errored" ELSE "flushed"]
    /\ UNCHANGED <<oneVars, bodies, arrived, readers, queued, includes, stores>>

NextTwo ==
  TwoParseChunk \/ TwoParseFlush \/ TwoTransform \/ TwoFlush \/ TwoTransformP \/ TwoFlushP

SpecTwo == InitTwo /\ [][NextTwo]_vars

NextRequest == NextCall \/ Next

SpecRequest == InitCall /\ [][NextRequest]_vars

----------------------------------------------------------------------------
(* Vocabulary of the claims *)

IsChunk(c) == c.kind = "chunk"
\* delta.role = "assistant", delta.content = "", finish_reason = null
IsHeader(c) ==
  IsChunk(c) /\ c.role /\ c.hasContent /\ c.content = << >> /\ c.finish_reason = Null
\* a content delta: delta.content only, finish_reason = null
IsDelta(c) == IsChunk(c) /\ ~c.role /\ c.hasContent /\ c.finish_reason = Null
\* delta = {}, finish_reason not null
IsTerminal(c) == IsChunk(c) /\ ~c.role /\ ~c.hasContent /\ c.finish_reason # Null
HasTotals(c) == c.usage = "totals"

Positions == 1..Len(out)
HeadersOf(i) == {k \in Positions : IsHeader(out[k]) /\ out[k].index = i}
DeltasOf(i) == {k \in Positions : IsDelta(out[k]) /\ out[k].index = i}
TerminalsOf(i) == {k \in Positions : IsTerminal(out[k]) /\ out[k].index = i}
ChunksOf(i) == {k \in Positions : IsChunk(out[k]) /\ out[k].index = i}
DonePositions == {k \in Positions : out[k] = Done}

\* index i has a last-seen frame
Recorded(i) == ~Unseen(last, i)
\* the payload is JSON
Parsed(f) == f.kind \in {"null", "obj"}
\* the payload is a JSON object whose candidates list is absent, no array or empty
NoCandidates(f) == f.kind = "obj" /\ (f.ck # "array" \/ f.cands = << >>)
\* the payload is a JSON object with a primary candidate
HasPrimary(f) ==
  f.kind = "obj" /\ f.ck = "array" /\ f.cands # << >> /\ ~f.cands[1].isNull
\* the payload has a primary candidate of index i whose parts hold text
TextFrameOf(f, i) ==
  /\ HasPrimary(f)
  /\ IndexOf(f.cands[1]) = i
  /\ f.cands[1].content = "parts"
  /\ TextContent(f.cands[1].parts) # << >>
\* the upstream has ended and the flush callback has run
Ended == phase \in {"flushed", "flush_errored"}
\* the step took the payload f
Took(f) == Len(fed') = Len(fed) + 1 /\ fed'[Len(fed')] = f

----------------------------------------------------------------------------
(* Claims *)

\* C1: once the upstream has ended and the translator has run its flush, the
\* output holds exactly one "data: [DONE]" record, and that record is the last.
C1_OneDoneLast ==
  Ended =>
    /\ out # << >>
    /\ DonePositions = {Len(out)}

\* C2: every candidate index that appears in an emitted chunk has exactly one
\* header chunk, and the header precedes every other chunk of that index.
C2_OneHeaderFirst ==
  \A i \in Indices :
    ChunksOf(i) # {} =>
      /\ Cardinality(HeadersOf(i)) = 1
      /\ \A h \in HeadersOf(i) : \A k \in ChunksOf(i) \ {h} : h < k

\* C3: after flush every recorded index has exactly one terminal chunk, placed
\* after each content delta of the index and before [DONE]; an index that was
\* never recorded has no terminal chunk.
C3_OneTerminalPerRecorded ==
  Ended =>
    \A i \in Indices :
      IF Recorded(i)
      THEN /\ Cardinality(TerminalsOf(i)) = 1
           /\ \A t \in TerminalsOf(i) :
                /\ \A k \in DeltasOf(i) : k < t
                /\ \E d \in DonePositions : t < d
      ELSE TerminalsOf(i) = {}

\* the records the step enqueued, and the content deltas among them
Emitted == SubSeq(out', Len(out) + 1, Len(out'))
NewDeltas == SelectSeq(Emitted, IsDelta)

\* C4: a parsed payload whose primary candidate has index i yields exactly one
\* content delta for i (finish_reason null, whatever its finishReason) when
\* its parts hold text, and no content delta when its text is empty.
C4_DeltaPerTextFrame ==
  [][\A f \in Frames :
       (Took(f) /\ HasPrimary(f) /\ phase' = "open") =>
         LET i == IndexOf(f.cands[1]) IN
         IF TextFrameOf(f, i)
         THEN /\ Len(NewDeltas) = 1
              /\ NewDeltas[1].index = i
              /\ NewDeltas[1].content = JoinSep(f.cands[1].parts)
         ELSE NewDeltas = << >>]_vars

\* C5: a stream whose first and only payload is not JSON is answered by a
\* header chunk, a terminal chunk with finish_reason "error", and [DONE].
C5_MalformedFirst ==
  (Ended /\ Len(fed) = 1 /\ fed[1].kind = "bad") =>
    /\ Len(out) = 3
    /\ IsHeader(out[1]) /\ out[1].index = 0
    /\ IsTerminal(out[2]) /\ out[2].index = 0 /\ out[2].finish_reason = "error"
    /\ out[3] = Done

\* C6: a payload that is not JSON, arriving when a frame is already recorded,
\* is skipped: nothing is enqueued, this.last is unchanged, the stream stays open.
C6_MalformedLaterSkipped ==
  [][(Took(Line("bad")) /\ last # << >>) =>
       (out' = out /\ last' = last /\ phase' = "open")]_vars

\* the last-seen entry made for a payload without candidates: an error
\* candidate of index 0 with empty content
ErrorEntry(e) ==
  /\ e.set
  /\ e.data.ck = "array"
  /\ Len(e.data.cands) = 1
  /\ e.data.cands[1] = ErrorCand

\* C7: a parsed payload without a usable candidates list, when nothing is
\* recorded yet, makes the translator record an empty error candidate of index
\* 0 and send its header chunk; when a frame is recorded it is dropped: nothing
\* is enqueued and this.last is unchanged.
C7_NoCandidatesRecovered ==
  [][\A f \in Frames :
       (Took(f) /\ NoCandidates(f)) =>
         IF last = << >>
         THEN /\ Len(Emitted) = 1 /\ IsHeader(Emitted[1]) /\ Emitted[1].index = 0
              /\ Len(last') = 1 /\ ErrorEntry(last'[1])
         ELSE out' = out /\ last' = last]_vars

\* some payload of the stream carried usageMetadata
UsageSeen == \E k \in 1..Len(fed) : fed[k].kind = "obj" /\ fed[k].usage.present
\* the terminal chunks that carry usage totals
TotalsTerminals == {k \in Positions : IsTerminal(out[k]) /\ HasTotals(out[k])}

\* C8: with include_usage set and usageMetadata carried by some payload, the
\* flushed output holds exactly one terminal chunk with usage totals.
C8_OneUsageChunk ==
  (Ended /\ streamIncludeUsage /\ UsageSeen) =>
    Cardinality(TotalsTerminals) = 1

\* C9: no record enqueued before flush carries usage totals, and without
\* include_usage no record carries usage totals at all.
C9_UsageOnlyAtFlush ==
  /\ phase \in {"open", "errored"} => \A k \in Positions : ~HasTotals(out[k])
  /\ ~streamIncludeUsage => \A k \in Positions : ~HasTotals(out[k])

\* C9 witness: usageMetadata arrived in an earlier payload of a stream with
\* include_usage, and the flushed output carries totals on a terminal chunk
C9_Witness ==
  /\ phase = "flushed"
  /\ streamIncludeUsage
  /\ Len(fed) >= 2 /\ fed[1].kind = "obj" /\ fed[1].usage.present
  /\ TotalsTerminals # {}
  /\ \A k \in Positions : HasTotals(out[k]) => IsTerminal(out[k])

\* C10: after flush, an index whose last recorded frame has no finishReason
\* has a terminal chunk, and its finish_reason is "stop".
C10_DefaultStop ==
  phase = "flushed" =>
    \A i \in Indices :
      (Recorded(i) /\ last[i + 1].data.cands[1].finishReason = "") =>
        /\ TerminalsOf(i) # {}
        /\ \A t \in TerminalsOf(i) : out[t].finish_reason = "stop"

----------------------------------------------------------------------------
(* Claims about the reassembler *)

BodyArrived == pos = Len(BodyText(records))

\* the payloads of the data records of the body, in order
RECURSIVE PayloadsOf(_)
PayloadsOf(recs) ==
  IF recs = << >> THEN << >>
  ELSE (IF Head(recs).kind = "data" THEN <<Head(recs).payload>> ELSE << >>)
       \o PayloadsOf(Tail(recs))

\* a is b with some elements left out
RECURSIVE IsSubsequence(_, _)
IsSubsequence(a, b) ==
  IF a = << >> THEN TRUE
  ELSE IF b = << >> THEN FALSE
  ELSE IF Head(a) = Head(b) THEN IsSubsequence(Tail(a), Tail(b))
  ELSE IsSubsequence(a, Tail(b))

\* C11: a body of one complete data record, with any of the three
\* terminators, cut into chunks at any boundaries, yields the record's payload
\* exactly once and leaves the buffer empty, as feeding it in one chunk does.
C11_SplitInvariance ==
  (Len(records) = 1 /\ records[1].kind = "data" /\ BodyArrived)
    => (enqueued = <<records[1].payload>> /\ buffer = << >>)

\* C12: for a body of complete records, whatever the chunks, every emission
\* (flush included) is the payload of exactly one record and the emissions
\* come in the order of their records.
C12_OrderNoSplitNoMerge ==
  (reader = "reading" \/ BodyArrived) => IsSubsequence(enqueued, PayloadsOf(records))

\* C13: at the end of input a non-empty buffer is enqueued once and unchanged,
\* an empty one adds nothing, and nothing is enqueued after that.
C13_FlushEmitsRemainder ==
  [][/\ (reader = "reading" /\ reader' = "closed")
          => enqueued' = (IF buffer # << >> THEN Append(enqueued, buffer) ELSE enqueued)
     /\ reader = "closed" => enqueued' = enqueued]_vars

\* a body cut short after a complete record: the remainder follows the payload
C13_Witness ==
  /\ reader = "closed"
  /\ buffer # << >>
  /\ Len(enqueued) = 2
  /\ enqueued[1] = records[1].payload
  /\ enqueued[2] = buffer

----------------------------------------------------------------------------
(* Claims about handleCompletions and the non-stream transformer *)

\* the upstream call of the request failed
UpstreamFailed == upstream.kind \in {"throws", "notok"}

\* a non-streaming request whose upstream call gave a body
NonStreamOk == ~stream /\ upstream.kind = "ok"

\* the candidates of the upstream body when they are a JSON array
ArrayOfCandidates ==
  IF NonStreamOk /\ upstream.data.kind = "obj" /\ upstream.data.ck = "array"
  THEN upstream.data.cands ELSE << >>

\* the table of finish reasons, as the specification words it
ReasonTable(fr) ==
  CASE fr = "STOP" -> "stop"
    [] fr = "MAX_TOKENS" -> "length"
    [] fr = "SAFETY" -> "content_filter"
    [] fr = "RECITATION" -> "content_filter"
    [] OTHER -> fr

\* C14: when the upstream call of a streaming request fails (response not
\* OK, or an exception while the request is built or sent), the client gets
\* exactly a header chunk of index 0, a chunk with empty delta and
\* finish_reason "error", and [DONE], and the stream is closed.
C14_FailureStream ==
  (stream /\ UpstreamFailed) =>
    /\ reply.kind = "errorStream"
    /\ Len(out) = 3
    /\ IsHeader(out[1]) /\ out[1].index = 0
    /\ IsTerminal(out[2]) /\ out[2].index = 0 /\ out[2].finish_reason = "error"
    /\ out[3] = Done
    /\ phase = "closed"

\* C15: a present vendor finish reason is mapped by the table STOP -> stop,
\* MAX_TOKENS -> length, SAFETY and RECITATION -> content_filter, any other
\* value unchanged, in the choices of a non-stream response and in the
\* terminal chunks of a stream.
C15_ReasonTable ==
  /\ reply.kind = "completion" =>
       \A k \in 1..Len(ArrayOfCandidates) :
         (~ArrayOfCandidates[k].isNull /\ ArrayOfCandidates[k].finishReason # "") =>
           /\ k <= Len(reply.choices)
           /\ reply.choices[k].finish_reason = ReasonTable(ArrayOfCandidates[k].finishReason)
  /\ phase = "flushed" =>
       \A i \in Indices :
         (Recorded(i) /\ last[i + 1].data.cands[1].finishReason # "") =>
           \A t \in TerminalsOf(i) :
             out[t].finish_reason = ReasonTable(last[i + 1].data.cands[1].finishReason)

\* a non-stream response with a RECITATION candidate and a WEIRD one
C15_Witness ==
  /\ reply.kind = "completion"
  /\ Len(ArrayOfCandidates) = 2
  /\ ArrayOfCandidates[1].finishReason = "RECITATION"
  /\ ArrayOfCandidates[2].finishReason = "WEIRD"
  /\ reply.choices[1].finish_reason = "content_filter"
  /\ reply.choices[2].finish_reason = "WEIRD"

\* a candidate object whose content.parts is an array of parts with text
TextCandidate(c) ==
  /\ ~c.isNull
  /\ c.content = "parts"
  /\ \A n \in 1..Len(c.parts) : c.parts[n].has

\* the texts of parts joined with the separator "\n\n|>"
RECURSIVE JoinedText(_)
JoinedText(parts) ==
  IF parts = << >> THEN << >>
  ELSE IF Len(parts) = 1 THEN parts[1].text
  ELSE parts[1].text \o <<"\n\n|>">> \o JoinedText(Tail(parts))

ParsedResponse == NonStreamOk /\ upstream.data.kind # "bad"

\* the parsed body is an object without a usable candidate list
NoCandidateList ==
  /\ ParsedResponse
  /\ upstream.data.kind = "obj"
  /\ (upstream.data.ck \in {"absent", "notarray"}
      \/ (upstream.data.ck = "array" /\ upstream.data.cands = << >>))

\* C17: for every parsed vendor response the non-stream transformer returns,
\* without throwing, a chat.completion whose choices each have the role
\* "assistant", a string content and a finish_reason that is not null.
C17_NeverThrows ==
  ParsedResponse =>
    /\ reply.kind = "completion"
    /\ \A k \in 1..Len(reply.choices) :
         /\ reply.choices[k].role
         /\ reply.choices[k].hasContent
         /\ reply.choices[k].finish_reason \notin {Null, Undefined}

\* C18: when the candidate list is absent, not an array or empty, the
\* response has exactly one choice, of index 0, an assistant message with
\* finish_reason "error".
C18_PlaceholderChoice ==
  NoCandidateList =>
    /\ reply.kind = "completion"
    /\ Len(reply.choices) = 1
    /\ reply.choices[1].index = 0
    /\ reply.choices[1].role
    /\ reply.choices[1].hasContent
    /\ reply.choices[1].finish_reason = "error"

\* C19: when the vendor response carries no usage metadata, the usage of the
\* non-stream response is an object with the three counters at 0, never null.
C19_ZeroUsage ==
  (NonStreamOk /\ ~upstream.data.usage.present /\ reply.kind = "completion") =>
    /\ ~reply.usage.isNull
    /\ reply.usage.totals = NoTotals

\* C20: in a non-stream response a candidate without a finish reason gets
\* the finish_reason "error".
C20_AbsentReasonIsError ==
  reply.kind = "completion" =>
    \A k \in 1..Len(ArrayOfCandidates) :
      (~ArrayOfCandidates[k].isNull /\ ArrayOfCandidates[k].finishReason = "") =>
        /\ k <= Len(reply.choices)
        /\ reply.choices[k].finish_reason = "error"

----------------------------------------------------------------------------
(* Claims about the request transformer *)

\* the request has been looked at: the call was issued or the request answered
Built == sent.made \/ reply # NoReply

Families == {"gemini-", "gemma-", "learnlm-"}

\* the messages of the request that are no system messages, in order
IsNonSystem(m) == m.role # "system"
NonSystem == SelectSeq(req.messages, IsNonSystem)

\* C21: the model is resolved by the first rule that applies: the prefix
\* models/ is stripped; else a name that starts with gemini-, gemma- or
\* learnlm- is kept; any other name and a missing or non-string model give
\* the default model.
C21_ModelResolution ==
  sent.made =>
    sent.model =
      (IF req.model.isString /\ req.model.name # << >> /\ Head(req.model.name) = "models/"
       THEN Tail(req.model.name)
       ELSE IF req.model.isString /\ req.model.name # << >>
               /\ Head(req.model.name) \in Families
       THEN req.model.name
       ELSE <<"gemini-", "2.0-flash">>)

\* models/gpt-x is sent as gpt-x
C21_Witness ==
  /\ sent.made
  /\ req.model = ModelName(TRUE, <<"models/", "gpt-", "x">>)
  /\ sent.model = <<"gpt-", "x">>

\* C22: a conversation of system messages only is sent with contents holding
\* one synthetic turn of role "user".
C22_SyntheticUserTurn ==
  (sent.made /\ req.hasMessages /\ req.messages # << >> /\ NonSystem = << >>) =>
    /\ Len(sent.body.contents) = 1
    /\ sent.body.contents[1].role = "user"

\* the turn is the translation of the message: the text of a string content,
\* or the items of an array content in order (a trailing part may follow)
TurnOf(turn, m) ==
  IF ~m.content.isArray THEN turn.parts = <<TextPart(m.content.text)>>
  ELSE /\ Len(turn.parts) >= Len(m.content.items)
       /\ \A k \in 1..Len(m.content.items) :
            turn.parts[k] =
              (CASE m.content.items[k].type = "text" -> TextPart(m.content.items[k].text)
                 [] m.content.items[k].type = "image_url" -> InlinePart(m.content.items[k].url)
                 [] OTHER -> InlinePart("audio"))

\* C23: every non-system message is in contents exactly once, in the
\* original order, with the role model for assistant and user for any other
\* role; no system message is in contents; the system instruction is the
\* translation of one system message.
C23_ContentsInOrder ==
  (sent.made /\ req.hasMessages) =>
    /\ NonSystem # << >> =>
         /\ Len(sent.body.contents) = Len(NonSystem)
         /\ \A k \in 1..Len(NonSystem) :
              /\ TurnOf(sent.body.contents[k], NonSystem[k])
              /\ sent.body.contents[k].role
                   = (IF NonSystem[k].role = "assistant" THEN "model" ELSE "user")
    /\ \A k \in 1..Len(sent.body.contents) : \A n \in 1..Len(req.messages) :
         req.messages[n].role = "system" => ~TurnOf(sent.body.contents[k], req.messages[n])
    /\ sent.body.hasSystem = (Len(NonSystem) < Len(req.messages))
    /\ sent.body.hasSystem =>
         \E n \in 1..Len(req.messages) :
           /\ req.messages[n].role = "system"
           /\ TurnOf(sent.body.system_instruction, req.messages[n])

\* a tool message, then an assistant message
C23_Witness ==
  /\ sent.made
  /\ Len(req.messages) = 2
  /\ req.messages[1].role = "tool"
  /\ req.messages[2].role = "assistant"
  /\ Len(sent.body.contents) = 2
  /\ sent.body.contents[1] = Turn("user", <<TextPart(<<"res">>)>>)
  /\ sent.body.contents[2] = Turn("model", <<TextPart(<<"ok">>)>>)

KnownFormats == {"json_schema", "json_object", "text"}

\* C24: json_schema whose schema has an enum key gives text/x.enum with the
\* schema; json_schema otherwise gives application/json, with the schema when
\* there is one; json_object gives application/json; text gives text/plain;
\* any other type is a request error and nothing is sent.  (The schema is an
\* object or absent.)
C24_FormatMapping ==
  (Built /\ req.response_format.present /\ req.response_format.schema # "string") =>
    LET rf == req.response_format
        cfg == sent.body.generationConfig
    IN /\ rf.type \notin KnownFormats => (~sent.made /\ upstream.kind = "throws")
       /\ sent.made =>
            CASE rf.type = "json_schema" /\ rf.schema = "enum" ->
                   cfg.responseMimeType = "text/x.enum" /\ cfg.responseSchema = "enum"
              [] rf.type = "json_schema" /\ rf.schema # "enum" ->
                   cfg.responseMimeType = "application/json" /\ cfg.responseSchema = rf.schema
              [] rf.type = "json_object" -> cfg.responseMimeType = "application/json"
              [] rf.type = "text" -> cfg.responseMimeType = "text/plain"
              [] OTHER -> FALSE

\* the format text is sent as text/plain
C24_Witness ==
  /\ sent.made
  /\ req.response_format = Format(TRUE, "text", "absent")
  /\ sent.body.generationConfig.responseMimeType = "text/plain"

\* the request names a response format, or holds a content part, of a type
\* the transformer does not know
PartTypes == {"text", "image_url", "input_audio"}
UnknownPart ==
  \E n \in 1..Len(req.messages) :
    /\ req.messages[n].content.isArray
    /\ \E k \in 1..Len(req.messages[n].content.items) :
         req.messages[n].content.items[k].type \notin PartTypes
UnknownFormat ==
  req.response_format.present /\ req.response_format.type \notin KnownFormats

\* C25: a request with a response format or a content part of an unknown type
\* is aborted and answered with status 400, streaming or not.
C25_ClientError ==
  (Built /\ (UnknownFormat \/ UnknownPart)) => (~sent.made /\ reply.status = 400)

\* C29: the model the call is issued for is non-empty, and it starts with
\* gemini-, gemma- or learnlm- or is the default model.
C29_ResolvedModelKnown ==
  sent.made =>
    /\ sent.model # << >>
    /\ Head(sent.model) \in Families \/ sent.model = <<"gemini-", "2.0-flash">>

\* the parts an array content is sent as, but for a trailing part
PartsOfItems(items) ==
  [k \in 1..Len(items) |->
     CASE items[k].type = "text" -> TextPart(items[k].text)
       [] items[k].type = "image_url" -> InlinePart(items[k].url)
       [] OTHER -> InlinePart("audio")]

\* C30: the turn of a message whose content holds image parts only is the
\* image parts in order, then exactly one empty text part; the turn of any
\* other array content is its parts in order and nothing more.
C30_TrailingTextPart ==
  (sent.made /\ req.hasMessages /\ NonSystem = req.messages) =>
    \A n \in 1..Len(req.messages) :
      req.messages[n].content.isArray =>
        LET items == req.messages[n].content.items
            every == \A k \in 1..Len(items) : items[k].type = "image_url"
        IN sent.body.contents[n].parts =
             PartsOfItems(items) \o (IF every THEN <<TextPart(<< >>)>> ELSE << >>)

\* two images, then the empty text part
C30_Witness ==
  /\ sent.made
  /\ req.messages = <<Message("user", Arr(<<ImageItem("data"), ImageItem("http")>>))>>
  /\ sent.body.contents[1].parts
       = <<InlinePart("data"), InlinePart("http"), TextPart(<< >>)>>

----------------------------------------------------------------------------
(* Claims about the terminal chunks of the stream *)

\* C27: no chunk enqueued before flush carries a finish_reason that is not null.
C27_NoReasonBeforeFlush ==
  phase \in {"open", "errored"} =>
    \A k \in Positions : IsChunk(out[k]) => out[k].finish_reason = Null

\* the finish_reason a finishReason stands for; an absent one stands for a
\* default
DerivedFrom(fr) == IF fr = "" THEN {"stop", "error"} ELSE {ReasonTable(fr)}
\* the last-seen entry of index j is left as it was
SameEntry(j) ==
  /\ Unseen(last', j) = Unseen(last, j)
  /\ ~Unseen(last, j) => last'[j + 1] = last[j + 1]

\* C28: a payload taken for index i becomes the last-seen entry of i, in the
\* place of any earlier one, and no other entry changes; at flush the
\* terminal chunk of a recorded index i carries the finishReason of the
\* last-seen entry of i, mapped.
C28_ReasonOfMostRecent ==
  [][/\ \A f \in Frames :
          (Took(f) /\ HasPrimary(f) /\ phase' = "open") =>
            LET i == IndexOf(f.cands[1]) IN
            /\ ~Unseen(last', i)
            /\ last'[i + 1].data.cands[1] = [f.cands[1] EXCEPT !.index = i]
            /\ \A j \in Indices \ {i} : SameEntry(j)
     /\ (phase = "open" /\ phase' = "flushed") =>
          \A k \in 1..Len(Emitted) :
            (IsTerminal(Emitted[k]) /\ Recorded(Emitted[k].index)) =>
              Emitted[k].finish_reason
                \in DerivedFrom(last[Emitted[k].index + 1].data.cands[1].finishReason)]_vars

\* index 0 sent WEIRD, then STOP: the terminal chunk says stop
C28_Witness ==
  /\ phase = "flushed"
  /\ Len(fed) = 2
  /\ fed[1] = One(Cand(0, "parts", <<T(<<"a">>)>>, "WEIRD"), NoUsage)
  /\ fed[2] = One(Cand(0, "parts", <<T(<<"a">>), T(<<"b">>)>>, "STOP"), BigUsage)
  /\ TerminalsOf(0) # {}
  /\ \A t \in TerminalsOf(0) : out[t].finish_reason = "stop"

----------------------------------------------------------------------------
(* Claims about requests in flight at once *)

\* worker.mjs: the records of a translator that takes the payloads one by one
RECURSIVE TranslateAll(_, _, _)
TranslateAll(payloads, lst, include) ==
  IF payloads = << >> THEN [out |-> << >>, last |-> lst, throws |-> FALSE]
  ELSE LET t == toOpenAiStream(JSONparse(Head(payloads)), lst, include) IN
       IF t.throws THEN [out |-> t.emit, last |-> t.last, throws |-> TRUE]
       ELSE LET rest == TranslateAll(Tail(payloads), t.last, include)
            IN [out |-> t.emit \o rest.out, last |-> rest.last, throws |-> rest.throws]

\* part_000: the same
RECURSIVE TranslateAllP(_, _, _)
TranslateAllP(payloads, lst, lrd) ==
  IF payloads = << >> THEN [out |-> << >>, last |-> lst, lrd |-> lrd, throws |-> FALSE]
  ELSE LET t == toOpenAiStreamP(JSONparse(Head(payloads)), lst, lrd) IN
       IF t.throws THEN [out |-> t.emit, last |-> t.last, lrd |-> t.lrd, throws |-> TRUE]
       ELSE LET rest == TranslateAllP(Tail(payloads), t.last, t.lrd)
            IN [out |-> t.emit \o rest.out, last |-> rest.last, lrd |-> rest.lrd,
                throws |-> rest.throws]

\* the payloads of a body that arrives alone, in one chunk
PayloadsAlone(body) ==
  parseStream(<< >>, body).emit \o parseStreamFlush(parseStream(<< >>, body).buffer)

\* the output of a request that runs alone
Alone(body, include) ==
  IF impl = "worker"
  THEN LET t == TranslateAll(PayloadsAlone(body), << >>, include)
       IN IF t.throws THEN t.out ELSE t.out \o toOpenAiStreamFlush(t.last, include)
  ELSE LET t == TranslateAllP(PayloadsAlone(body), << >>, Hole)
       IN IF t.throws THEN t.out
          ELSE t.out \o toOpenAiStreamFlushP(t.last, t.lrd, include).emit

IsPrefix(a, b) == Len(a) <= Len(b) /\ SubSeq(b, 1, Len(a)) = a
Finished(r) == phases[r] \in {"errored", "flushed", "flush_errored"}

\* C26: with two streaming requests in flight, whatever the order in which
\* their chunks arrive and their callbacks run, the output of each is at
\* every moment a prefix of the output it has when it runs alone, and is
\* that output once the request has ended.
C26_Independent ==
  \A r \in Reqs :
    /\ IsPrefix(outs[r], Alone(bodies[r], includes[r]))
    /\ Finished(r) => outs[r] = Alone(bodies[r], includes[r])

\* both requests are under way: each has enqueued records and holds the
\* start of a record in its buffer, and the bodies differ
C26_Witness ==
  /\ bodies[1] # bodies[2]
  /\ \A r \in Reqs :
       /\ 0 < arrived[r] /\ arrived[r] < Len(bodies[r])
       /\ stores[Owner(r)].buffer # << >>
       /\ outs[r] # << >>
       /\ phases[r] = "open"

----------------------------------------------------------------------------
(* Claims about the upstream call and the frames *)

\* some image of the request cannot be had: its fetch fails, or its URL is
\* neither remote nor a data: URL
FailedImage ==
  \E n \in 1..Len(req.messages) :
    /\ req.messages[n].content.isArray
    /\ \E k \in 1..Len(req.messages[n].content.items) :
         /\ req.messages[n].content.items[k].type = "image_url"
         /\ req.messages[n].content.items[k].url \in {"http404", "nodata"}

\* C31: the upstream call is issued only for a request whose transformation
\* succeeded, its remote images fetched; a request with an unknown response
\* format, an unknown content part or a failed image fetch is answered
\* without any upstream call.
C31_CallAfterTransformation ==
  /\ sent.made => ~(UnknownFormat \/ UnknownPart \/ FailedImage)
  /\ (Built /\ (UnknownFormat \/ UnknownPart \/ FailedImage)) =>
       (~sent.made /\ reply # NoReply /\ upstream.kind = "throws")

\* a request with a remote image is sent once the image is fetched
C31_Witness ==
  /\ sent.made
  /\ \E n \in 1..Len(req.messages) :
       /\ req.messages[n].content.isArray
       /\ \E k \in 1..Len(req.messages[n].content.items) :
            req.messages[n].content.items[k] = ImageItem("http")
  /\ \E n \in 1..Len(sent.body.contents) :
       \E k \in 1..Len(sent.body.contents[n].parts) :
         sent.body.contents[n].parts[k] = InlinePart("http")

\* C32: the step of the translator raises for no payload: the output stream
\* is never errored, and the flush is reached.
C32_StepNeverRaises == phase # "errored"

\* the indexes whose last-seen entry the step changes
Changed == {j \in Indices : ~SameEntry(j)}
\* the index a payload is recorded under: the one of its primary candidate,
\* 0 for a payload without one
RecordIndex(f) == IF HasPrimary(f) THEN IndexOf(f.cands[1]) ELSE 0

\* C33: the step that takes a payload changes the last-seen entry of no
\* index but the one the payload is recorded under; every other entry stays
\* as it is, and a recorded index stays recorded.
C33_OneEntryPerFrame ==
  [][/\ \A f \in Frames : Took(f) => Changed \subseteq {RecordIndex(f)}
     /\ \A i \in Indices : Recorded(i) => ~Unseen(last', i)
     /\ Len(last') >= Len(last)]_vars

\* index 0, index 1, then index 0 again: the entry of index 1 is the second
\* payload still
C33_Witness ==
  /\ phase = "open"
  /\ Len(fed) = 3
  /\ fed[1] = One(Cand(0, "parts", <<T(<<"a">>)>>, ""), NoUsage)
  /\ fed[2] = One(Cand(1, "parts", <<T(<<"a">>)>>, ""), NoUsage)
  /\ fed[3] = One(Cand(0, "parts", <<T(<<"a">>), T(<<"b">>)>>, "STOP"), BigUsage)
  /\ Len(last) = 2
  /\ last[1] = Slot(fed[3])
  /\ last[2] = Slot(fed[2])

\* the buffer does not begin as a data record does
NotDataStart(buf) ==
  \E k \in 1..Len(DataPrefix) : k <= Len(buf) /\ buf[k] # DataPrefix[k]
\* the characters that arrive in the step
Arriving == SubSeq(BodyText(records), pos + 1, pos')

\* C34: while the buffer begins with text that is no data record, a chunk
\* that arrives is added to the buffer and nothing is enqueued, whatever
\* records it holds; the flush enqueues the whole buffer as one payload.
C34_NonDataPrefixStalls ==
  [][(reader = "reading" /\ NotDataStart(buffer)) =>
       IF reader' = "reading"
       THEN enqueued' = enqueued /\ buffer' = buffer \o Arriving
       ELSE enqueued' = enqueued \o <<buffer>>]_vars

\* a comment line, then a data record: the flush enqueues both as one payload
C34_Witness ==
  /\ reader = "closed"
  /\ records = <<CommentRecord, DataRecord(<<"x">>, 1)>>
  /\ pos = Len(BodyText(records))
  /\ enqueued = <<BodyText(records)>>

\* C35: a payload with several candidates is translated for its first
\* candidate only: the records of the step carry the index of that candidate,
\* the last-seen entry of no other index changes, and an index other than 0
\* has chunks, a terminal chunk included, only when it was the index of the
\* first candidate of some payload.
C35_FirstCandidateOnly ==
  [][/\ \A f \in Frames :
          (Took(f) /\ HasPrimary(f) /\ Len(f.cands) > 1) =>
            /\ \A k \in 1..Len(Emitted) : Emitted[k].index = IndexOf(f.cands[1])
            /\ Changed \subseteq {IndexOf(f.cands[1])}
     /\ \A j \in Indices \ {0} :
          (\E k \in 1..Len(out') : IsChunk(out'[k]) /\ out'[k].index = j) =>
            \E n \in 1..Len(fed') :
              HasPrimary(fed'[n]) /\ IndexOf(fed'[n].cands[1]) = j]_vars

\* the payload with the candidates 0 and 1 alone: after the flush index 0 is
\* opened and closed, and index 1 has no chunk
C35_Witness ==
  /\ phase = "flushed"
  /\ Len(fed) = 1
  /\ Len(fed[1].cands) = 2
  /\ HeadersOf(0) # {} /\ DeltasOf(0) # {} /\ TerminalsOf(0) # {}
  /\ ChunksOf(1) = {}
  /\ Len(last) = 1

====
